---- MODULE Spec2Model ----
(***************************************************************************)
(* A model of the invoice field extraction engine of                       *)
(* src/invoice_ocr_api_v2.py: extract_supplier_address, extract_items,     *)
(* extract_abn, find_date_in_window and extract_invoice_fields.            *)
(*                                                                         *)
(* OCR lines are TLA+ strings.  Substring tests, str.lower, str.strip,     *)
(* str.join and the regular expressions of the source are computed         *)
(* character by character on them.                                         *)
(***************************************************************************)
EXTENDS Integers, Sequences, FiniteSets, TLC

VARIABLES
    lines,          \* the argument of the function under study
    pc,             \* position in the function under study
    i,              \* index (1-based) of the line the running loop is at
    capturing,      \* extract_supplier_address: capturing
    address,        \* extract_supplier_address: address
    ret,            \* extract_supplier_address: the returned string
    cleaned,        \* extract_items: cleaned
    after_header,   \* extract_items: after_header
    bucket,         \* extract_items: bucket
    group,          \* extract_items: group
    items,          \* extract_items: items
    data            \* extract_invoice_fields: data

vars == <<lines, pc, i, capturing, address, ret, cleaned, after_header,
          bucket, group, items, data>>

(***************************************************************************)
(* Bounds of the model.                                                    *)
(***************************************************************************)
MaxAddrLines == 5
MaxItemLines == 5
MaxBucket == 9
MaxDescLines == 10
MaxText == 2
MaxFieldLines == 3
MaxDateLines == 8
MaxGstLines == 7
MaxMarked == 3

SeqsUpTo(S, n) == UNION {[1..k -> S] : k \in 0..n}

(***************************************************************************)
(* Python string primitives.                                               *)
(***************************************************************************)
\* s[p:p+1], 1-based: the character at p, "" outside the string
Ch(s, p) == IF 1 <= p /\ p <= Len(s) THEN SubSeq(s, p, p) ELSE ""
\* s[a-1:b], 1-based and clipped to the string like a Python slice
Sub(s, a, b) == SubSeq(s, IF a < 1 THEN 1 ELSE a, IF b > Len(s) THEN Len(s) ELSE b)

UPPER == "ABCDEFGHIJKLMNOPQRSTUVWXYZ"
LOWER == "abcdefghijklmnopqrstuvwxyz"
DIGITS == "0123456789"

UpperSet == {Ch(UPPER, k) : k \in 1..Len(UPPER)}
LowerSet == {Ch(LOWER, k) : k \in 1..Len(LOWER)}
DigitSet == {Ch(DIGITS, k) : k \in 1..Len(DIGITS)}
\* the lower-case letter of each upper-case letter
LowerOf == [c \in UpperSet |-> Ch(LOWER, CHOOSE k \in 1..Len(UPPER) : Ch(UPPER, k) = c)]

IsUpper(c) == c \in UpperSet
IsDigit(c) == c \in DigitSet
\* \s of the re module, for the characters OCR text holds
SpaceSet == {" ", "\t", "\n", "\r"}
IsSpace(c) == c \in SpaceSet
\* \w of the re module
WordSet == UpperSet \cup LowerSet \cup DigitSet \cup {"_"}
IsWord(c) == c \in WordSet

lower_ch(c) == IF IsUpper(c) THEN LowerOf[c] ELSE c

RECURSIVE lower(_)
lower(s) == IF s = "" THEN "" ELSE lower_ch(Ch(s, 1)) \o lower(SubSeq(s, 2, Len(s)))

\* sub in s
Contains(s, sub) ==
    \E p \in 1..(Len(s) - Len(sub) + 1) : SubSeq(s, p, p + Len(sub) - 1) = sub

AnyIn(words, s) == \E w \in words : Contains(s, w)

RECURSIVE lstrip(_)
lstrip(s) == IF s # "" /\ IsSpace(Ch(s, 1)) THEN lstrip(SubSeq(s, 2, Len(s))) ELSE s

RECURSIVE rstrip(_)
rstrip(s) ==
    IF s # "" /\ IsSpace(Ch(s, Len(s))) THEN rstrip(SubSeq(s, 1, Len(s) - 1)) ELSE s

strip(s) == rstrip(lstrip(s))

RECURSIVE join(_, _)
join(sep, seq) ==
    IF Len(seq) = 0 THEN ""
    ELSE IF Len(seq) = 1 THEN seq[1]
    ELSE seq[1] \o sep \o join(sep, Tail(seq))

\* s.replace(old, new): the leftmost occurrences that do not overlap (old # "")
RECURSIVE replace(_, _, _)
replace(s, old, new) ==
    IF Len(s) < Len(old) THEN s
    ELSE IF SubSeq(s, 1, Len(old)) = old
         THEN new \o replace(SubSeq(s, Len(old) + 1, Len(s)), old, new)
         ELSE Ch(s, 1) \o replace(SubSeq(s, 2, Len(s)), old, new)

\* the length of the longest run of characters of Class that starts at p
RECURSIVE RunLen(_, _, _)
RunLen(s, p, Class) ==
    IF p <= Len(s) /\ Ch(s, p) \in Class THEN 1 + RunLen(s, p + 1, Class) ELSE 0

\* the length of the longest run of characters not of Class that starts at p
RECURSIVE RunLenNot(_, _, _)
RunLenNot(s, p, Class) ==
    IF p <= Len(s) /\ Ch(s, p) \notin Class THEN 1 + RunLenNot(s, p + 1, Class) ELSE 0

SetMin(S) == CHOOSE x \in S : \A y \in S : x <= y

(***************************************************************************)
(* Python values that may be None are tagged: None, a str, a float.  A     *)
(* float holds its value in hundredths (the decimal tokens of the inputs   *)
(* have one or two fractional digits).                                     *)
(***************************************************************************)
None == <<"None">>
Str(s) == <<"str", s>>
Float(c) == <<"float", c>>

\* a dict: a function from its keys
EmptyDict == [k \in {} |-> None]
Put(d, key, v) == [k \in DOMAIN d \cup {key} |-> IF k = key THEN v ELSE d[k]]
\* d.get(key)
Get(d, key) == IF key \in DOMAIN d THEN d[key] ELSE None

\* data before extract_invoice_fields has run (lines 141-148)
NoData == [invoice_details |-> EmptyDict, supplier |-> EmptyDict, customer |-> EmptyDict,
           items |-> <<>>, totals |-> EmptyDict, payment_terms |-> EmptyDict]

(***************************************************************************)
(* extract_supplier_address                                                *)
(***************************************************************************)
START == {"level", "suite", "elizabeth"}
STREET_WORDS == {"st", "street", "road", "rd", "ave", "avenue"}
CITY_WORDS == {"melbourne", "sydney", "brisbane", "perth", "adelaide", "hobart"}
STOP == {"customer", "payment", "invoice", "amount", "description", "quantity"}

HasStart(low) == AnyIn(START, low)
HasStop(low) == AnyIn(STOP, low)
HasAustralia(low) == Contains(low, "australia")
IsAddressLine(low) ==
    \/ AnyIn(START, low)
    \/ AnyIn(STREET_WORDS, low)
    \/ AnyIn(CITY_WORDS, low)
    \/ Contains(low, "australia")

AddrVocab == {"Invoice", "Level 3", "Suite 2 Payment", "Sydney", "Australia", "Widget"}

InitAddr ==
    /\ lines \in SeqsUpTo(AddrVocab, MaxAddrLines)
    /\ pc = "addr_loop"
    /\ i = 1
    /\ capturing = FALSE
    /\ address = <<>>
    /\ ret = ""
    /\ cleaned = <<>>
    /\ after_header = FALSE
    /\ bucket = <<>>
    /\ group = <<>>
    /\ items = <<>>
    /\ data = NoData

NotAddr == UNCHANGED <<lines, cleaned, after_header, bucket, group, items, data>>

\* lines 41-45: not capturing and no start keyword: continue
AddrContinue ==
    /\ pc = "addr_loop" /\ i <= Len(lines)
    /\ ~capturing /\ ~HasStart(lower(lines[i]))
    /\ i' = i + 1
    /\ UNCHANGED <<pc, capturing, address, ret>>
    /\ NotAddr

\* lines 41-48: capturing (or starting to) and a stop keyword: break
AddrBreakStop ==
    /\ pc = "addr_loop" /\ i <= Len(lines)
    /\ capturing \/ HasStart(lower(lines[i]))
    /\ HasStop(lower(lines[i]))
    /\ capturing' = TRUE
    /\ pc' = "addr_return"
    /\ UNCHANGED <<i, address, ret>>
    /\ NotAddr

\* AddrLine with lines 58-59 left out: no break on the "australia" line
AddrLine_NoAustraliaBreak ==
    /\ pc = "addr_loop" /\ i <= Len(lines)
    /\ capturing \/ HasStart(lower(lines[i]))
    /\ ~HasStop(lower(lines[i]))
    /\ capturing' = TRUE
    /\ address' = IF IsAddressLine(lower(lines[i]))
                  THEN Append(address, lines[i]) ELSE address
    /\ pc' = pc /\ i' = i + 1
    /\ UNCHANGED ret
    /\ NotAddr

\* lines 41-59: capturing (or starting to), no stop keyword
AddrLine ==
    /\ pc = "addr_loop" /\ i <= Len(lines)
    /\ capturing \/ HasStart(lower(lines[i]))
    /\ ~HasStop(lower(lines[i]))
    /\ capturing' = TRUE
    /\ address' = IF IsAddressLine(lower(lines[i]))
                  THEN Append(address, lines[i]) ELSE address
    /\ IF HasAustralia(lower(lines[i]))
       THEN pc' = "addr_return" /\ i' = i
       ELSE pc' = pc /\ i' = i + 1
    /\ UNCHANGED ret
    /\ NotAddr

\* line 61, after a break or at the end of the sequence
AddrReturn ==
    /\ \/ pc = "addr_return"
       \/ pc = "addr_loop" /\ i > Len(lines)
    /\ ret' = strip(replace(join(", ", address), "  ", " "))
    /\ pc' = "done"
    /\ UNCHANGED <<i, capturing, address>>
    /\ NotAddr

NextAddr == AddrContinue \/ AddrBreakStop \/ AddrLine \/ AddrReturn

SpecAddr == InitAddr /\ [][NextAddr]_vars

(***************************************************************************)
(* extract_items                                                           *)
(***************************************************************************)
AllDigits(s) == s # "" /\ \A p \in 1..Len(s) : IsDigit(Ch(s, p))

\* numeric = re.compile(r"^\d+(\.\d{1,2})?$"), numeric.match(x)
numeric_match(x) ==
    \E n \in 1..Len(x) :
        /\ AllDigits(SubSeq(x, 1, n))
        /\ \/ n = Len(x)
           \/ /\ n < Len(x) /\ Ch(x, n + 1) = "."
              /\ Len(x) - (n + 1) \in {1, 2}
              /\ AllDigits(SubSeq(x, n + 2, Len(x)))

\* money = re.compile(r"^\d+\.\d{2}$"), money.match(x)
money_match(x) ==
    /\ Len(x) >= 4
    /\ AllDigits(SubSeq(x, 1, Len(x) - 3))
    /\ Ch(x, Len(x) - 2) = "."
    /\ AllDigits(SubSeq(x, Len(x) - 1, Len(x)))

\* gst_percent = re.compile(r"^\d+%$"), gst_percent.match(x)
gst_percent_match(x) ==
    /\ Len(x) >= 2
    /\ AllDigits(SubSeq(x, 1, Len(x) - 1))
    /\ Ch(x, Len(x)) = "%"

IsNumericToken(x) == numeric_match(x) \/ money_match(x) \/ gst_percent_match(x)

StartsWith(s, pre) == Len(s) >= Len(pre) /\ SubSeq(s, 1, Len(pre)) = pre

\* the three exclusions of the description, lines 116-118
IsNoise(x) ==
    \/ \E w \in {"item", "description", "quantity", "gst", "amount"} :
          StartsWith(lower(x), w)
    \/ Contains(lower(x), "amount aud")
    \/ Contains(lower(x), "tixperts-")

\* x in nums
InSeq(x, seq) == \E k \in 1..Len(seq) : seq[k] = x

\* line 92
IsHeader(low) ==
    Contains(low, "unit price")
    \/ (Contains(low, "description") /\ Contains(low, "quantity"))

\* line 78: [x.strip() for x in lines if x.strip()]
RECURSIVE strip_nonempty(_)
strip_nonempty(seq) ==
    IF Len(seq) = 0 THEN <<>>
    ELSE IF strip(seq[1]) # "" THEN <<strip(seq[1])>> \o strip_nonempty(Tail(seq))
    ELSE strip_nonempty(Tail(seq))

\* line 105
NumsOf(grp) == SelectSeq(grp, IsNumericToken)

\* MakeItem with the roles of the second and the fourth numeric line exchanged
MakeItem_SwapTotal(grp) ==
    LET nums == NumsOf(grp)
        keep(x) == ~InSeq(x, nums) /\ ~IsNoise(x)
    IN  [description |-> strip(join(" ", SelectSeq(grp, keep))),
         quantity    |-> nums[1],
         unit_price  |-> nums[4],
         gst_percent |-> IF gst_percent_match(nums[3]) THEN Str(nums[3]) ELSE None,
         line_total  |-> nums[2]]

\* MakeItem with the description taken from the lines after the first
\* numeric line of the group only
MakeItem_DropLeading(grp) ==
    LET nums == NumsOf(grp)
        keep(x) == ~InSeq(x, nums) /\ ~IsNoise(x)
        first == CHOOSE k \in 1..Len(grp) :
                    IsNumericToken(grp[k]) /\ \A m \in 1..(k - 1) : ~IsNumericToken(grp[m])
    IN  [description |-> strip(join(" ", SelectSeq(SubSeq(grp, first, Len(grp)), keep))),
         quantity    |-> nums[1],
         unit_price  |-> nums[2],
         gst_percent |-> IF gst_percent_match(nums[3]) THEN Str(nums[3]) ELSE None,
         line_total  |-> nums[4]]

\* lines 108-127: the item built from a group holding four numeric lines
MakeItem(grp) ==
    LET nums == NumsOf(grp)
        keep(x) == ~InSeq(x, nums) /\ ~IsNoise(x)
    IN  [description |-> strip(join(" ", SelectSeq(grp, keep))),
         quantity    |-> nums[1],
         unit_price  |-> nums[2],
         gst_percent |-> IF gst_percent_match(nums[3]) THEN Str(nums[3]) ELSE None,
         line_total  |-> nums[4]]

ItemVocab ==
    {"Unit Price", "Description Quantity", "Customer", "Customer Unit Price", " 10.00 "}

InitItems ==
    /\ lines \in SeqsUpTo(ItemVocab, MaxItemLines)
    /\ pc = "items_start"
    /\ i = 1
    /\ capturing = FALSE
    /\ address = <<>>
    /\ ret = ""
    /\ cleaned = <<>>
    /\ after_header = FALSE
    /\ bucket = <<>>
    /\ group = <<>>
    /\ items = <<>>
    /\ data = NoData

NotItems == UNCHANGED <<lines, capturing, address, ret, data>>

\* lines 78-87
ItemsStart ==
    /\ pc = "items_start"
    /\ cleaned' = strip_nonempty(lines)
    /\ pc' = "collect"
    /\ UNCHANGED <<i, after_header, bucket, group, items>>
    /\ NotItems

\* CollectHeader taking only the first header line as a header: a later one
\* is collected like any other line
CollectHeader_FirstOnly ==
    /\ pc = "collect" /\ i <= Len(cleaned)
    /\ IsHeader(lower(cleaned[i]))
    /\ after_header' = TRUE
    /\ bucket' = IF after_header THEN Append(bucket, cleaned[i]) ELSE bucket
    /\ i' = i + 1
    /\ UNCHANGED <<pc, cleaned, group, items>>
    /\ NotItems

\* lines 92-94: a header line
CollectHeader ==
    /\ pc = "collect" /\ i <= Len(cleaned)
    /\ IsHeader(lower(cleaned[i]))
    /\ after_header' = TRUE
    /\ i' = i + 1
    /\ UNCHANGED <<pc, cleaned, bucket, group, items>>
    /\ NotItems

\* line 96, after_header false: the line is passed over
CollectSkip ==
    /\ pc = "collect" /\ i <= Len(cleaned)
    /\ ~IsHeader(lower(cleaned[i]))
    /\ ~after_header
    /\ i' = i + 1
    /\ UNCHANGED <<pc, cleaned, after_header, bucket, group, items>>
    /\ NotItems

\* lines 96-98: break
CollectBreak ==
    /\ pc = "collect" /\ i <= Len(cleaned)
    /\ ~IsHeader(lower(cleaned[i]))
    /\ after_header
    /\ Contains(lower(cleaned[i]), "customer")
    /\ pc' = "group"
    /\ i' = 1
    /\ UNCHANGED <<cleaned, after_header, bucket, group, items>>
    /\ NotItems

\* lines 96-99: bucket.append(line)
CollectAppend ==
    /\ pc = "collect" /\ i <= Len(cleaned)
    /\ ~IsHeader(lower(cleaned[i]))
    /\ after_header
    /\ ~Contains(lower(cleaned[i]), "customer")
    /\ bucket' = Append(bucket, cleaned[i])
    /\ i' = i + 1
    /\ UNCHANGED <<pc, cleaned, after_header, group, items>>
    /\ NotItems

\* the first loop runs out of lines
CollectEnd ==
    /\ pc = "collect" /\ i > Len(cleaned)
    /\ pc' = "group"
    /\ i' = 1
    /\ UNCHANGED <<cleaned, after_header, bucket, group, items>>
    /\ NotItems

\* GroupLine with line 129 left out: the group is kept after an emission
GroupLine_NoReset ==
    /\ pc = "group" /\ i <= Len(bucket)
    /\ LET g == Append(group, bucket[i])
       IN  IF Len(NumsOf(g)) >= 4
           THEN /\ items' = Append(items, MakeItem(g))
                /\ group' = g
           ELSE /\ group' = g
                /\ items' = items
    /\ i' = i + 1
    /\ UNCHANGED <<pc, cleaned, after_header, bucket>>
    /\ NotItems

\* lines 102-129: one iteration of the grouping loop
GroupLine ==
    /\ pc = "group" /\ i <= Len(bucket)
    /\ LET g == Append(group, bucket[i])
       IN  IF Len(NumsOf(g)) >= 4
           THEN /\ items' = Append(items, MakeItem(g))
                /\ group' = <<>>
           ELSE /\ group' = g
                /\ items' = items
    /\ i' = i + 1
    /\ UNCHANGED <<pc, cleaned, after_header, bucket>>
    /\ NotItems

\* line 131
ItemsReturn ==
    /\ pc = "group" /\ i > Len(bucket)
    /\ pc' = "done"
    /\ UNCHANGED <<i, cleaned, after_header, bucket, group, items>>
    /\ NotItems

NextGroup == GroupLine \/ ItemsReturn

NextItems ==
    \/ ItemsStart
    \/ CollectHeader \/ CollectSkip \/ CollectBreak \/ CollectAppend \/ CollectEnd
    \/ NextGroup

SpecItems == InitItems /\ [][NextItems]_vars

(***************************************************************************)
(* The grouping loop of extract_items on its own: the state at line 101,   *)
(* for the line sequence made of a header line and the bucket.             *)
(***************************************************************************)
GroupVocab == {"Widget", "2", "10%"}

InitGroup ==
    /\ bucket \in SeqsUpTo(GroupVocab, MaxBucket)
    /\ lines = <<"Unit Price">> \o bucket
    /\ cleaned = lines
    /\ after_header = TRUE
    /\ pc = "group"
    /\ i = 1
    /\ capturing = FALSE
    /\ address = <<>>
    /\ ret = ""
    /\ group = <<>>
    /\ items = <<>>
    /\ data = NoData

SpecGroup == InitGroup /\ [][NextGroup]_vars

(***************************************************************************)
(* The grouping loop again, for buckets with several kinds of text lines:  *)
(* at most MaxText lines that are not numeric, each a description line or  *)
(* a noise line, among lines holding a quantity.                           *)
(***************************************************************************)
TextVocab == {"Widget", "Blue", "GST"}

InitDesc ==
    /\ \E n \in 0..MaxDescLines :
         \E T \in {X \in SUBSET (1..n) : Cardinality(X) <= MaxText} :
           \E f \in [T -> TextVocab] :
             bucket = [k \in 1..n |-> IF k \in T THEN f[k] ELSE "2"]
    /\ lines = <<"Unit Price">> \o bucket
    /\ cleaned = lines
    /\ after_header = TRUE
    /\ pc = "group"
    /\ i = 1
    /\ capturing = FALSE
    /\ address = <<>>
    /\ ret = ""
    /\ group = <<>>
    /\ items = <<>>
    /\ data = NoData

SpecDesc == InitDesc /\ [][NextGroup]_vars

(***************************************************************************)
(* The functions above as extract_invoice_fields calls them.               *)
(***************************************************************************)
RECURSIVE address_loop(_, _, _, _)
\* lines 38-59 from line k (1-based) on
address_loop(ls, k, cap, addr) ==
    IF k > Len(ls) THEN addr
    ELSE LET low == lower(ls[k])
         IN  IF ~cap /\ ~HasStart(low) THEN address_loop(ls, k + 1, FALSE, addr)
             ELSE IF HasStop(low) THEN addr
             ELSE LET next == IF IsAddressLine(low) THEN Append(addr, ls[k]) ELSE addr
                  IN  IF HasAustralia(low) THEN next
                      ELSE address_loop(ls, k + 1, TRUE, next)

extract_supplier_address(ls) ==
    strip(replace(join(", ", address_loop(ls, 1, FALSE, <<>>)), "  ", " "))

RECURSIVE collect_loop(_, _, _, _)
\* lines 89-99 from line k on
collect_loop(cl, k, hdr, bkt) ==
    IF k > Len(cl) THEN bkt
    ELSE LET low == lower(cl[k])
         IN  IF IsHeader(low) THEN collect_loop(cl, k + 1, TRUE, bkt)
             ELSE IF ~hdr THEN collect_loop(cl, k + 1, FALSE, bkt)
             ELSE IF Contains(low, "customer") THEN bkt
             ELSE collect_loop(cl, k + 1, TRUE, Append(bkt, cl[k]))

RECURSIVE group_loop(_, _, _, _)
\* lines 102-129 from bucket line k on
group_loop(bkt, k, grp, its) ==
    IF k > Len(bkt) THEN its
    ELSE LET g == Append(grp, bkt[k])
         IN  IF Len(NumsOf(g)) >= 4
             THEN group_loop(bkt, k + 1, <<>>, Append(its, MakeItem(g)))
             ELSE group_loop(bkt, k + 1, g, its)

extract_items(ls) ==
    group_loop(collect_loop(strip_nonempty(ls), 1, FALSE, <<>>), 1, <<>>, <<>>)

(***************************************************************************)
(* extract_abn                                                             *)
(***************************************************************************)
\* re.search(r"ABN[\s:]*([\d ]{11,20})", text, re.IGNORECASE): the group of
\* the match that starts at p, None if no match starts there.  The separator
\* run is greedy and gives characters back while the group is too short.
AbnGroupAt(text, p) ==
    LET m == RunLen(text, p + 3, SpaceSet \cup {":"})
        glen(k) == LET r == RunLen(text, p + 3 + k, DigitSet \cup {" "})
                   IN  IF r > 20 THEN 20 ELSE r
        K == {k \in 0..m : glen(k) >= 11}
    IN  IF lower(Sub(text, p, p + 2)) # "abn" \/ K = {} THEN None
        ELSE LET k == CHOOSE x \in K : \A y \in K : y <= x
             IN  Str(Sub(text, p + 3 + k, p + 3 + k + glen(k) - 1))

extract_abn(text) ==
    LET P == {p \in 1..Len(text) : AbnGroupAt(text, p) # None}
    IN  IF P = {} THEN None
        ELSE Str(replace(AbnGroupAt(text, SetMin(P))[2], " ", ""))

(***************************************************************************)
(* find_date_in_window and the date parser                                 *)
(***************************************************************************)
DigitVal(c) == (CHOOSE k \in 1..Len(DIGITS) : Ch(DIGITS, k) = c) - 1

RECURSIVE ToInt(_)
ToInt(s) ==
    IF s = "" THEN 0
    ELSE 10 * ToInt(SubSeq(s, 1, Len(s) - 1)) + DigitVal(Ch(s, Len(s)))

MONTHS ==
    <<"january", "february", "march", "april", "may", "june", "july",
      "august", "september", "october", "november", "december">>
MONTH_ABBR ==
    <<"Jan", "Feb", "Mar", "Apr", "May", "Jun", "Jul", "Aug", "Sep", "Oct", "Nov", "Dec">>

\* the days of month m of year y
DaysIn(m, y) ==
    IF m = 2
    THEN (IF y % 4 = 0 /\ (y % 100 # 0 \/ y % 400 = 0) THEN 29 ELSE 28)
    ELSE IF m \in {4, 6, 9, 11} THEN 30 ELSE 31

\* dateparser.parse(s): the library is outside the repository; it is
\* modelled on the lines "D[D] Month YYYY" (a day, an English month name, a
\* year), which it resolves, and every other line of the inputs used here
\* (keywords, words, numbers with a decimal point or a % sign) is one it does
\* not resolve.  A date is <<"date", day, month, year>>.
dateparser_parse(s) ==
    LET d == RunLen(s, 1, DigitSet)
        w == RunLen(s, d + 2, UpperSet \cup LowerSet)
        y == d + w + 3
        month == lower(Sub(s, d + 2, d + 1 + w))
    IN  IF /\ d \in {1, 2}
           /\ Ch(s, d + 1) = " "
           /\ w >= 1
           /\ Ch(s, d + w + 2) = " "
           /\ Len(s) = y + 3
           /\ AllDigits(Sub(s, y, y + 3))
           /\ \E m \in 1..12 : MONTHS[m] = month
           /\ ToInt(Sub(s, 1, d)) \in
                  1..DaysIn(CHOOSE m \in 1..12 : MONTHS[m] = month, ToInt(Sub(s, y, y + 3)))
        THEN <<"date", ToInt(Sub(s, 1, d)),
               CHOOSE m \in 1..12 : MONTHS[m] = month,
               ToInt(Sub(s, y, y + 3))>>
        ELSE None

\* dt.strftime("%d %b %Y"), for years of four digits
strftime(dt) ==
    (IF dt[2] < 10 THEN "0" ELSE "") \o ToString(dt[2]) \o " "
        \o MONTH_ABBR[dt[3]] \o " " \o ToString(dt[4])

\* the default of the parameter window of find_date_in_window
Window == 6

\* find_date_in_window(lines, start_idx, window), start the 1-based index of
\* the anchor line: range(start_idx + 1, min(start_idx + window, len(lines)))
\* is, 1-based, start + 1 .. min(start + window - 1, len(lines))
find_date_in_window(ls, start, window) ==
    LET last == IF start + window - 1 < Len(ls) THEN start + window - 1 ELSE Len(ls)
        P == {j \in (start + 1)..last : dateparser_parse(ls[j]) # None}
    IN  IF P = {} THEN None ELSE Str(strftime(dateparser_parse(ls[SetMin(P)])))

(***************************************************************************)
(* extract_invoice_fields                                                  *)
(***************************************************************************)
\* the truth value Python gives a value
Truthy(v) ==
    CASE v = None -> FALSE
      [] v[1] = "str" -> v[2] # ""
      [] v[1] = "float" -> v[2] # 0

\* float(x) for a token \d+\.\d+ with one or two fractional digits, in hundredths
ToFloat(x) ==
    LET n == RunLen(x, 1, DigitSet)
        frac == Sub(x, n + 2, Len(x))
    IN  CASE Len(frac) = 1 -> Float(100 * ToInt(Sub(x, 1, n)) + 10 * ToInt(frac))
          [] Len(frac) = 2 -> Float(100 * ToInt(Sub(x, 1, n)) + ToInt(frac))

\* re.findall(r"[A-Z]{2}\.\d{3}-\d{2}\.INV-\d{4}", full): a match starts at p
InvoiceNumberAt(full, p) ==
    /\ p + 17 <= Len(full)
    /\ IsUpper(Ch(full, p)) /\ IsUpper(Ch(full, p + 1))
    /\ Ch(full, p + 2) = "."
    /\ AllDigits(Sub(full, p + 3, p + 5))
    /\ Ch(full, p + 6) = "-"
    /\ AllDigits(Sub(full, p + 7, p + 8))
    /\ Sub(full, p + 9, p + 13) = ".INV-"
    /\ AllDigits(Sub(full, p + 14, p + 17))

\* lines 151-152
InvoiceNumber(full) ==
    LET P == {p \in 1..Len(full) : InvoiceNumberAt(full, p)}
    IN  IF P = {} THEN None ELSE Str(Sub(full, SetMin(P), SetMin(P) + 17))

\* lines 155-165
InvoiceDate(details, safe) ==
    LET A == {a \in 1..Len(safe) : Contains(lower(safe[a]), "invoice date")}
        d1 == IF A = {} THEN details
              ELSE Put(details, "invoice_date", find_date_in_window(safe, SetMin(A), Window))
        P == {j \in 1..Len(safe) : dateparser_parse(safe[j]) # None}
    IN  IF ~Truthy(Get(d1, "invoice_date")) /\ P # {}
        THEN Put(d1, "invoice_date", Str(strftime(dateparser_parse(safe[SetMin(P)]))))
        ELSE d1

\* re.search(r"Due Date[:\s]+(\d{1,2} \w+ \d{4})", full): the group of the
\* match that starts at p, None if no match starts there
DueDateAt(full, p) ==
    LET sep == RunLen(full, p + 8, SpaceSet \cup {":"})
        d == p + 8 + sep
        dl == RunLen(full, d, DigitSet)
        w == d + dl + 1
        wl == RunLen(full, w, WordSet)
        y == w + wl + 1
    IN  IF /\ Sub(full, p, p + 7) = "Due Date"
           /\ sep >= 1
           /\ dl \in {1, 2}
           /\ Ch(full, d + dl) = " "
           /\ wl >= 1
           /\ Ch(full, w + wl) = " "
           /\ y + 3 <= Len(full)
           /\ AllDigits(Sub(full, y, y + 3))
        THEN Str(Sub(full, d, y + 3))
        ELSE None

\* lines 168-169
DueDate(full) ==
    LET P == {p \in 1..Len(full) : DueDateAt(full, p) # None}
    IN  IF P = {} THEN None ELSE DueDateAt(full, SetMin(P))

\* lines 172-176
SupplierName(safe) ==
    LET P == {j \in 1..Len(safe) : Contains(lower(safe[j]), "pty")}
    IN  IF P = {} THEN None ELSE Str(replace(safe[SetMin(P)], "TIA", "T/A"))

\* lines 183-186
CustomerName(customer, safe) ==
    LET P == {j \in 1..Len(safe) :
                 Contains(lower(safe[j]), "customer") /\ j + 1 <= Len(safe)}
    IN  IF P = {} THEN customer ELSE Put(customer, "name", Str(safe[SetMin(P) + 1]))

\* re.search(r"INCLUDES GST[^\d]*([\d]+\.[\d]+)", full, re.IGNORECASE): the
\* group of the match that starts at p, None if no match starts there
InlineGstAt(full, p) ==
    LET d == p + 12 + RunLenNot(full, p + 12, DigitSet)
        l1 == RunLen(full, d, DigitSet)
        l2 == RunLen(full, d + l1 + 1, DigitSet)
    IN  IF /\ lower(Sub(full, p, p + 11)) = "includes gst"
           /\ l1 >= 1
           /\ Ch(full, d + l1) = "."
           /\ l2 >= 1
        THEN Str(Sub(full, d, d + l1 + l2))
        ELSE None

\* re.search(r"([\d]+\.[\d]+)", nxt): the group of the match that starts at p
DecimalAt(nxt, p) ==
    LET l1 == RunLen(nxt, p, DigitSet)
        l2 == RunLen(nxt, p + l1 + 1, DigitSet)
    IN  IF l1 >= 1 /\ Ch(nxt, p + l1) = "." /\ l2 >= 1
        THEN Str(Sub(nxt, p, p + l1 + l2))
        ELSE None

HasDecimal(nxt) == \E p \in 1..Len(nxt) : DecimalAt(nxt, p) # None
FirstDecimal(nxt) == DecimalAt(nxt, SetMin({p \in 1..Len(nxt) : DecimalAt(nxt, p) # None}))

\* lines 201-208: safe[idx:idx+5] is, 1-based, the lines a .. a + 4
GstLookAhead(safe) ==
    LET A == {a \in 1..Len(safe) : Contains(lower(safe[a]), "includes gst")}
    IN  IF A = {} THEN None
        ELSE LET a == SetMin(A)
                 last == IF a + 4 < Len(safe) THEN a + 4 ELSE Len(safe)
                 N == {j \in a..last : HasDecimal(safe[j])}
             IN  IF N = {} THEN None ELSE ToFloat(FirstDecimal(safe[SetMin(N)])[2])

\* lines 193-208
GstAmount(safe, full) ==
    LET P == {p \in 1..Len(full) : InlineGstAt(full, p) # None}
    IN  IF P # {} THEN ToFloat(InlineGstAt(full, SetMin(P))[2])
        ELSE GstLookAhead(safe)

\* a match of r"\b\d+\.\d{2}\b" starts at p: its length, 0 if none does
MoneyLenAt(full, p) ==
    LET l1 == RunLen(full, p, DigitSet)
        e == p + l1 + 2
    IN  IF /\ ~IsWord(Ch(full, p - 1))
           /\ l1 >= 1
           /\ Ch(full, p + l1) = "."
           /\ IsDigit(Ch(full, e - 1)) /\ IsDigit(Ch(full, e))
           /\ ~IsWord(Ch(full, e + 1))
        THEN l1 + 3
        ELSE 0

RECURSIVE LastMoney(_, _, _)
\* the last element of re.findall(r"\b\d+\.\d{2}\b", full): the scan goes on
\* after the end of each match
LastMoney(full, p, last) ==
    IF p > Len(full) THEN last
    ELSE LET n == MoneyLenAt(full, p)
         IN  IF n > 0 THEN LastMoney(full, p + n, Str(Sub(full, p, p + n - 1)))
             ELSE LastMoney(full, p + 1, last)

\* lines 211-212
Total(full) ==
    LET x == LastMoney(full, 1, None)
    IN  IF x = None THEN None ELSE ToFloat(x[2])

\* lines 218-222
GstPercentVal(its) ==
    LET P == {k \in 1..Len(its) : Truthy(its[k].gst_percent)}
    IN  IF P = {} THEN None ELSE its[SetMin(P)].gst_percent

\* lines 227-230
Subtotal(total, gst_amount) ==
    IF Truthy(total) /\ Truthy(gst_amount)
    THEN Float(total[2] - gst_amount[2])
    ELSE None

\* lines 137-236
extract_invoice_fields(ls) ==
    LET safe == strip_nonempty(ls)
        full == join(" ", safe)
        details1 == Put(EmptyDict, "invoice_number", InvoiceNumber(full))
        details2 == InvoiceDate(details1, safe)
        details == Put(details2, "due_date", DueDate(full))
        supplier == Put(Put(Put(EmptyDict, "name", SupplierName(safe)),
                            "address", Str(extract_supplier_address(safe))),
                        "abn", extract_abn(full))
        customer == CustomerName(EmptyDict, safe)
        its == extract_items(safe)
        gst_amount == GstAmount(safe, full)
        total == Total(full)
        totals == Put(Put(Put(Put(EmptyDict, "total", total),
                              "gst_amount", gst_amount),
                          "gst_percent", GstPercentVal(its)),
                      "subtotal", Subtotal(total, gst_amount))
        payment == Put(Put(EmptyDict, "amount_due", total),
                       "due_date", details["due_date"])
    IN  [invoice_details |-> details,
         supplier        |-> supplier,
         customer        |-> customer,
         items           |-> its,
         totals          |-> totals,
         payment_terms   |-> payment]

\* extract_invoice_fields(lines)
ExtractInvoiceFields ==
    /\ pc = "fields"
    /\ data' = extract_invoice_fields(lines)
    /\ pc' = "done"
    /\ UNCHANGED <<lines, i, capturing, address, ret, cleaned, after_header,
                   bucket, group, items>>

NextFields == ExtractInvoiceFields

FieldsRest ==
    /\ pc = "fields"
    /\ i = 1
    /\ capturing = FALSE
    /\ address = <<>>
    /\ ret = ""
    /\ cleaned = <<>>
    /\ after_header = FALSE
    /\ bucket = <<>>
    /\ group = <<>>
    /\ items = <<>>
    /\ data = NoData

\* short sequences of lines of every kind, blank ones included
FieldVocab ==
    {"", "  ", "Invoice Date", " 03 June 2024", "Acme Pty Ltd TIA Bolt",
     "ABN: 12 345 678 901", "AB.123-45.INV-6789", "Due Date: 3 June 2024",
     "Customer", "Unit Price", "INCLUDES GST 0.00", "INCLUDES GST", "10%",
     "7.73", "0.00", "10.00", "Level 3 Sydney"}

InitFields ==
    /\ lines \in SeqsUpTo(FieldVocab, MaxFieldLines)
    /\ FieldsRest

SpecFields == InitFields /\ [][NextFields]_vars


(***************************************************************************)
(* extract_invoice_fields on longer sequences: lines of a filler word,     *)
(* with at most MaxMarked lines of the kinds a resolver looks for.         *)
(***************************************************************************)
Filler == "Widget"

SparseLines(Marked, maxLines) ==
    UNION {
      UNION {
        {[k \in 1..n |-> IF k \in T THEN f[k] ELSE Filler] : f \in [T -> Marked]}
        : T \in {X \in SUBSET (1..n) : Cardinality(X) <= MaxMarked}}
      : n \in 0..maxLines}

DateVocab == {"Invoice Date", "03 June 2024", "1 May 2023"}

InitDate ==
    /\ lines \in SparseLines(DateVocab, MaxDateLines)
    /\ FieldsRest

SpecDate == InitDate /\ [][NextFields]_vars

GstVocab == {"INCLUDES GST", "10%", "7.73"}

InitGst ==
    /\ lines \in SparseLines(GstVocab, MaxGstLines)
    /\ FieldsRest

SpecGst == InitGst /\ [][NextFields]_vars


(***************************************************************************)
(* Properties.                                                             *)
(***************************************************************************)
\* the first index of seq from index `from` on whose line satisfies Test,
\* Len(seq) + 1 if there is none
FirstFrom(seq, from, Test(_)) ==
    LET S == {j \in from..Len(seq) : Test(seq[j])}
    IN  IF S = {} THEN Len(seq) + 1 ELSE SetMin(S)

LineHasStart(x) == AnyIn({"level", "suite", "elizabeth"}, lower(x))
LineHasStop(x) ==
    AnyIn({"customer", "payment", "invoice", "amount", "description", "quantity"}, lower(x))
LineHasAustralia(x) == Contains(lower(x), "australia")

\* C3 as stated: a line is appended to the address only if no line of the
\* sequence up to and including it holds a stop keyword, and no line of the
\* sequence before it holds "australia".
C3_Original ==
    [][address' # address =>
         /\ address' = Append(address, lines[i])
         /\ \A j \in 1..i : ~LineHasStop(lines[j])
         /\ \A j \in 1..(i - 1) : ~LineHasAustralia(lines[j])]_vars

\* C3 (amended): a line is appended to the address only if, from the first line
\* holding a start keyword (where capturing begins) up to and including it, no
\* line holds a stop keyword, and from there up to before it no line holds
\* "australia": the first stop line met while capturing is never included, the
\* first "australia" line met while capturing may be.
C3_AddressEndsAtTerminator ==
    [][address' # address =>
         LET s == FirstFrom(lines, 1, LineHasStart)
         IN  /\ address' = Append(address, lines[i])
             /\ s <= i
             /\ \A j \in s..i : ~LineHasStop(lines[j])
             /\ \A j \in s..(i - 1) : ~LineHasAustralia(lines[j])]_vars

\* the address ends with an "australia" line met while capturing, a stop line
\* precedes the capture and an address line follows the terminator
C3_Witness ==
    /\ pc = "done"
    /\ Len(address) >= 2
    /\ LineHasAustralia(address[Len(address)])
    /\ \E j \in 1..Len(lines) : j < FirstFrom(lines, 1, LineHasStart) /\ LineHasStop(lines[j])
    /\ \E j \in (i + 1)..Len(lines) : IsAddressLine(lower(lines[j]))

\* the indices of the numeric lines of the bucket, in order
NumericIndices(b) ==
    SelectSeq([j \in 1..Len(b) |-> j], LAMBDA j : IsNumericToken(b[j]))

\* C4: the number of items returned is floor(N / 4), N the number of numeric
\* lines of the bucket.
C4_ItemCount ==
    pc = "done" => Len(items) = Len(NumericIndices(bucket)) \div 4

\* one item was emitted from a bucket of seven numeric lines (the trailing
\* three are discarded) which holds other lines too
C4_Witness ==
    /\ pc = "done"
    /\ Len(items) = 1
    /\ Len(NumericIndices(bucket)) = 7
    /\ Len(bucket) > 7

IsDescriptionLine(x) == ~IsNumericToken(x) /\ ~IsNoise(x)

\* C5: the k-th description is made of the description lines (neither numeric
\* nor noise) between the (k-1)-th emission and the k-th, in bucket order, and
\* while the loop runs the group holds every line read since the last emission.
C5_GroupingKeepsLines ==
    pc \in {"group", "done"} =>
        LET idx == NumericIndices(SubSeq(bucket, 1, i - 1))
            \* the index of the line at which the k-th item is emitted
            emit == [k \in 0..Len(items) |-> IF k = 0 THEN 0 ELSE idx[4 * k]]
        IN  /\ Len(items) = Len(idx) \div 4
            /\ \A k \in 1..Len(items) :
                  items[k].description =
                      strip(join(" ", SelectSeq(
                          SubSeq(bucket, emit[k - 1] + 1, emit[k]), IsDescriptionLine)))
            /\ group = SubSeq(bucket, emit[Len(items)] + 1, i - 1)

\* the second item's description is made of two different lines, the first
\* read right after the first emission, with numeric lines between the two
C5_Witness ==
    /\ pc = "done"
    /\ Len(items) = 2
    /\ items[2].description = "Widget Blue"
    /\ bucket[NumericIndices(bucket)[4] + 1] = "Widget"
    /\ bucket[NumericIndices(bucket)[8]] # "Blue"
    /\ bucket[NumericIndices(bucket)[8] - 1] # "Blue"

\* C8: the k-th item takes quantity, unit_price and line_total from the
\* (4k-3)-th, (4k-2)-th and 4k-th numeric line of the bucket, and gst_percent
\* from the (4k-1)-th if it has the Percent shape, None otherwise.
C8_ItemRoles ==
    pc = "done" =>
        LET nums == SelectSeq(bucket, IsNumericToken)
        IN  /\ 4 * Len(items) <= Len(nums)
            /\ \A k \in 1..Len(items) :
                  /\ items[k].quantity = nums[4 * k - 3]
                  /\ items[k].unit_price = nums[4 * k - 2]
                  /\ items[k].line_total = nums[4 * k]
                  /\ items[k].gst_percent =
                        IF gst_percent_match(nums[4 * k - 1])
                        THEN Str(nums[4 * k - 1]) ELSE None

\* two items, the first with a Percent third numeric line, the second without,
\* and a line that is not numeric among the second item's
C8_Witness ==
    /\ pc = "done"
    /\ Len(items) = 2
    /\ items[1].gst_percent = Str("10%")
    /\ items[2].gst_percent = None
    /\ items[2].quantity = "10%"
    /\ NumericIndices(bucket)[8] - NumericIndices(bucket)[4] > 4

LineIsHeader(x) ==
    Contains(lower(x), "unit price")
    \/ (Contains(lower(x), "description") /\ Contains(lower(x), "quantity"))
LineHasCustomer(x) == Contains(lower(x), "customer")
LineEndsBucket(x) == LineHasCustomer(x) /\ ~LineIsHeader(x)
LineIsCollected(x) == ~LineIsHeader(x)

\* C9 as stated: the bucket is every line after the first header line and
\* before the first later line holding "customer".
C9_Original ==
    pc \in {"group", "done"} =>
        LET h == FirstFrom(cleaned, 1, LineIsHeader)
            t == FirstFrom(cleaned, h + 1, LineHasCustomer)
        IN  bucket = SubSeq(cleaned, h + 1, t - 1)

\* C9 (amended): the bucket is, in order, every line that is not a header line
\* after the first header line and before the first later line that holds
\* "customer" and is not a header line.
C9_BucketSpan ==
    pc \in {"group", "done"} =>
        LET h == FirstFrom(cleaned, 1, LineIsHeader)
            t == FirstFrom(cleaned, h + 1, LineEndsBucket)
        IN  bucket = SelectSeq(SubSeq(cleaned, h + 1, t - 1), LineIsCollected)

\* a "customer" line before the header, a second header line inside the span,
\* a collected line after it, then the terminator
C9_Witness ==
    /\ pc = "done"
    /\ LET h == FirstFrom(cleaned, 1, LineIsHeader)
           t == FirstFrom(cleaned, h + 1, LineEndsBucket)
       IN  /\ \E j \in 1..(h - 1) : LineHasCustomer(cleaned[j])
           /\ t <= Len(cleaned)
           /\ \E j \in (h + 1)..(t - 1) :
                 LineIsHeader(cleaned[j]) /\ j < t - 1 /\ bucket # <<>>

\* the value of a field of a group of the record: Missing when the group has
\* no such key
Missing == <<"missing">>
Field(grp, key) == IF key \in DOMAIN data[grp] THEN data[grp][key] ELSE Missing

\* C1: the record returned has every field of every group, and items is a list.
C1_Schema ==
    pc = "done" =>
        /\ DOMAIN data.invoice_details = {"invoice_number", "invoice_date", "due_date"}
        /\ DOMAIN data.supplier = {"name", "address", "abn"}
        /\ DOMAIN data.customer = {"name"}
        /\ DOMAIN data.totals = {"total", "gst_amount", "gst_percent", "subtotal"}
        /\ DOMAIN data.payment_terms = {"amount_due", "due_date"}
        /\ DOMAIN data.items = 1..Len(data.items)

\* C2: subtotal is total - gst_amount when both are not None, None otherwise.
C2_SubtotalLaw ==
    pc = "done" =>
        Field("totals", "subtotal") =
            IF Field("totals", "total") # None /\ Field("totals", "gst_amount") # None
            THEN Float(Field("totals", "total")[2] - Field("totals", "gst_amount")[2])
            ELSE None

\* the normalised lines, as extract_invoice_fields makes them of its argument
SafeLines == strip_nonempty(lines)
Parses(x) == dateparser_parse(x) # None
DateOf(x) == Str(strftime(dateparser_parse(x)))
HasInvoiceDate(x) == Contains(lower(x), "invoice date")

\* C6: with an anchor line at index a, invoice_date is the date of the first
\* line among the 6 lines after it (a+1 .. a+6) that parses, when one does.
C6_WindowOfSix ==
    pc = "done" =>
        LET a == FirstFrom(SafeLines, 1, HasInvoiceDate)
            last == IF a + 6 < Len(SafeLines) THEN a + 6 ELSE Len(SafeLines)
            P == {j \in (a + 1)..last : Parses(SafeLines[j])}
        IN  a <= Len(SafeLines) /\ P # {} =>
                Field("invoice_details", "invoice_date") = DateOf(SafeLines[SetMin(P)])

\* C7: without an anchor, or with no line that parses in the anchor's window,
\* invoice_date is the date of the first line of the sequence that parses, and
\* invoice_date is None exactly when no line of the sequence parses.
C7_Fallback ==
    pc = "done" =>
        LET a == FirstFrom(SafeLines, 1, HasInvoiceDate)
            last == IF a + 6 < Len(SafeLines) THEN a + 6 ELSE Len(SafeLines)
            W == {j \in (a + 1)..last : Parses(SafeLines[j])}
            P == {j \in 1..Len(SafeLines) : Parses(SafeLines[j])}
        IN  /\ (a > Len(SafeLines) \/ W = {}) /\ P # {} =>
                  Field("invoice_details", "invoice_date") = DateOf(SafeLines[SetMin(P)])
            /\ Field("invoice_details", "invoice_date") = None <=> P = {}

HasIncludesGst(x) == Contains(lower(x), "includes gst")

\* C10: when the inline pattern does not match, gst_amount is the first
\* decimal token of the first line that holds one among the 5 lines after the
\* first "includes gst" line (a+1 .. a+5), None if there is none.
C10_LookAheadAfterAnchor ==
    pc = "done" =>
        LET full == join(" ", SafeLines)
            a == FirstFrom(SafeLines, 1, HasIncludesGst)
            last == IF a + 5 < Len(SafeLines) THEN a + 5 ELSE Len(SafeLines)
            N == {j \in (a + 1)..last : HasDecimal(SafeLines[j])}
        IN  (\A p \in 1..Len(full) : InlineGstAt(full, p) = None) =>
                Field("totals", "gst_amount") =
                    IF N = {} THEN None ELSE ToFloat(FirstDecimal(SafeLines[SetMin(N)])[2])

====
